---- MODULE Spec2Model ----
(* Door command handler of software/app_main.c: start-up sequence of       *)
(* app_main, the MQTT event handler and the GPIO it drives.                 *)
(* Strings are sequences of byte values; a C string literal is the sequence *)
(* of its bytes, its terminating NUL being read by CharAt past the end.     *)
EXTENDS Integers, Sequences, FiniteSets, TLC

VARIABLES pc, gpio_level, failed, done, client, registered, started,
          nHandled, lastEvent, prevEvent, before, out, prevOut, calls,
          writes, last_will, nConnected,
          mode, tasks, accepted

\* the variables of the statement-level view of the handler (SpecSteps)
stepVars == <<mode, tasks, accepted>>

vars == <<pc, gpio_level, failed, done, client, registered, started,
          nHandled, lastEvent, prevEvent, before, out, prevOut, calls,
          writes, last_will, nConnected, stepVars>>

\* ---------------------------------------------------------------- bounds
\* number of events delivered to the handler in one behaviour
MaxEvents == 3

\* ------------------------------------------------------------- constants
NUL == 0
LED_ON_LEVEL == 1

\* "/dorra/status"
TOPIC_STATUS == <<47,100,111,114,114,97,47,115,116,97,116,117,115>>
\* "/dorra/control"
TOPIC_CONTROL == <<47,100,111,114,114,97,47,99,111,110,116,114,111,108>>
\* "ESP Connected"
MSG_CONNECTED == <<69,83,80,32,67,111,110,110,101,99,116,101,100>>
\* "ESP Disconnected"
MSG_DISCONNECTED == <<69,83,80,32,68,105,115,99,111,110,110,101,99,116,101,100>>
\* "it's open"
MSG_OPEN_RESPONSE == <<105,116,39,115,32,111,112,101,110>>
\* "it's closed"
MSG_CLOSE_RESPONSE == <<105,116,39,115,32,99,108,111,115,101,100>>
\* "open"
CMD_OPEN == <<111,112,101,110>>
\* "close"
CMD_CLOSE == <<99,108,111,115,101>>

\* ------------------------------------------------------- C library model
\* byte i (1-based) of a string; past its last byte a C string reads NUL
CharAt(s, i) == IF i <= Len(s) THEN s[i] ELSE NUL

RECURSIVE strncmp_from(_, _, _, _)
strncmp_from(s1, s2, n, i) ==
  IF i > n THEN 0
  ELSE IF CharAt(s1, i) # CharAt(s2, i) THEN CharAt(s1, i) - CharAt(s2, i)
  ELSE IF CharAt(s1, i) = NUL THEN 0
  ELSE strncmp_from(s1, s2, n, i + 1)

\* strncmp(s1, s2, n): compares at most n bytes, stopping after a NUL
strncmp(s1, s2, n) == strncmp_from(s1, s2, n, 1)

RECURSIVE strlen_from(_, _)
strlen_from(s, i) == IF CharAt(s, i) = NUL THEN i - 1 ELSE strlen_from(s, i + 1)

strlen(s) == strlen_from(s, 1)

\* C's logical negation of an int
LNot(x) == IF x = 0 THEN 1 ELSE 0

\* ------------------------------------------------- MQTT client requests
\* esp_mqtt_client_publish(client, topic, data, len, qos, retain):
\* len = 0 makes the client take strlen(data) bytes
esp_mqtt_client_publish(topic, data, len, qos, retain) ==
  [call |-> "publish", topic |-> topic,
   payload |-> SubSeq(data, 1, IF len = 0 THEN strlen(data) ELSE len),
   qos |-> qos, retain |-> (retain # 0)]

esp_mqtt_client_subscribe(topic, qos) ==
  [call |-> "subscribe", topic |-> topic, qos |-> qos]

\* ------------------------------------------------------------------ GPIO
\* variant: the OFF level is not the negated polarity
led_set_state_same_level(state) == IF state THEN LED_ON_LEVEL ELSE LED_ON_LEVEL

\* level written to LED_GPIO_PIN by led_set_state(state)
led_set_state(state) == IF state THEN LED_ON_LEVEL ELSE LNot(LED_ON_LEVEL)

\* the logical output state is the pin level read against the polarity
OutputStateOf(level) == level = LED_ON_LEVEL

OutputState == OutputStateOf(gpio_level)

\* ------------------------------------------------------- event handlers
\* result of a handler: the pin level it leaves, the requests it issued, the
\* levels it wrote to the pin, and whether it halted the process
Effect(level, reqs) ==
  [level |-> level, reqs |-> reqs, writes |-> << >>, halt |-> FALSE]

\* result of a branch that calls led_set_state and then issues reqs
LedEffect(level, reqs) ==
  [level |-> level, reqs |-> reqs, writes |-> <<level>>, halt |-> FALSE]

\* variant: the subscription is requested before the status is published
handle_mqtt_connected_subscribe_first(level) ==
  Effect(level,
         << esp_mqtt_client_subscribe(TOPIC_CONTROL, 1),
            esp_mqtt_client_publish(TOPIC_STATUS, MSG_CONNECTED, 0, 1, 0) >>)

\* variant: the status is published to the control topic
handle_mqtt_connected_wrong_topic(level) ==
  Effect(level,
         << esp_mqtt_client_publish(TOPIC_CONTROL, MSG_CONNECTED, 0, 1, 0),
            esp_mqtt_client_subscribe(TOPIC_CONTROL, 1) >>)

\* variant: the subscription is requested on the first connect only
handle_mqtt_connected_subscribe_once(level) ==
  Effect(level,
         << esp_mqtt_client_publish(TOPIC_STATUS, MSG_CONNECTED, 0, 1, 0) >>
         \o (IF \E i \in 1..Len(calls) : calls[i].call = "subscribe"
             THEN << >>
             ELSE << esp_mqtt_client_subscribe(TOPIC_CONTROL, 1) >>))

handle_mqtt_connected(level) ==
  Effect(level,
         << esp_mqtt_client_publish(TOPIC_STATUS, MSG_CONNECTED, 0, 1, 0),
            esp_mqtt_client_subscribe(TOPIC_CONTROL, 1) >>)

\* variant: the OPEN branch acknowledges without driving the pin
process_control_message_open_no_led(data, data_len, level) ==
  IF strncmp(data, CMD_OPEN, data_len) = 0
  THEN Effect(level,
              << esp_mqtt_client_publish(TOPIC_STATUS, MSG_OPEN_RESPONSE, 0, 1, 0) >>)
  ELSE IF strncmp(data, CMD_CLOSE, data_len) = 0
  THEN LedEffect(led_set_state(FALSE),
              << esp_mqtt_client_publish(TOPIC_STATUS, MSG_CLOSE_RESPONSE, 0, 1, 0) >>)
  ELSE Effect(level, << >>)

\* variant: a command is acknowledged only when it changes the pin level
process_control_message_ack_on_change(data, data_len, level) ==
  IF strncmp(data, CMD_OPEN, data_len) = 0
  THEN LedEffect(led_set_state(TRUE),
              IF level = led_set_state(TRUE) THEN << >>
              ELSE << esp_mqtt_client_publish(TOPIC_STATUS, MSG_OPEN_RESPONSE, 0, 1, 0) >>)
  ELSE IF strncmp(data, CMD_CLOSE, data_len) = 0
  THEN LedEffect(led_set_state(FALSE),
              IF level = led_set_state(FALSE) THEN << >>
              ELSE << esp_mqtt_client_publish(TOPIC_STATUS, MSG_CLOSE_RESPONSE, 0, 1, 0) >>)
  ELSE Effect(level, << >>)

\* variant: the two comparisons are independent ifs, not an if / else-if chain
process_control_message_no_else(data, data_len, level) ==
  LET isOpen == strncmp(data, CMD_OPEN, data_len) = 0
      isClose == strncmp(data, CMD_CLOSE, data_len) = 0
      openReq == esp_mqtt_client_publish(TOPIC_STATUS, MSG_OPEN_RESPONSE, 0, 1, 0)
      closeReq == esp_mqtt_client_publish(TOPIC_STATUS, MSG_CLOSE_RESPONSE, 0, 1, 0)
  IN [level |-> IF isClose THEN led_set_state(FALSE)
                ELSE IF isOpen THEN led_set_state(TRUE) ELSE level,
      reqs |-> (IF isOpen THEN <<openReq>> ELSE << >>)
               \o (IF isClose THEN <<closeReq>> ELSE << >>),
      writes |-> (IF isOpen THEN <<led_set_state(TRUE)>> ELSE << >>)
                 \o (IF isClose THEN <<led_set_state(FALSE)>> ELSE << >>),
      halt |-> FALSE]

\* variant: the CLOSE branch sends the OPEN response
process_control_message_close_wrong_ack(data, data_len, level) ==
  IF strncmp(data, CMD_OPEN, data_len) = 0
  THEN LedEffect(led_set_state(TRUE),
              << esp_mqtt_client_publish(TOPIC_STATUS, MSG_OPEN_RESPONSE, 0, 1, 0) >>)
  ELSE IF strncmp(data, CMD_CLOSE, data_len) = 0
  THEN LedEffect(led_set_state(FALSE),
              << esp_mqtt_client_publish(TOPIC_STATUS, MSG_OPEN_RESPONSE, 0, 1, 0) >>)
  ELSE Effect(level, << >>)

process_control_message(data, data_len, level) ==
  IF strncmp(data, CMD_OPEN, data_len) = 0
  THEN LedEffect(led_set_state(TRUE),
              << esp_mqtt_client_publish(TOPIC_STATUS, MSG_OPEN_RESPONSE, 0, 1, 0) >>)
  ELSE IF strncmp(data, CMD_CLOSE, data_len) = 0
  THEN LedEffect(led_set_state(FALSE),
              << esp_mqtt_client_publish(TOPIC_STATUS, MSG_CLOSE_RESPONSE, 0, 1, 0) >>)
  ELSE Effect(level, << >>)

handle_mqtt_data(event, level) ==
  IF strncmp(event.topic, TOPIC_CONTROL, event.topic_len) = 0
  THEN process_control_message(event.data, event.data_len, level)
  ELSE Effect(level, << >>)

\* variant: a disconnect switches the output off
Dispatch_off_on_disconnect(event, level) ==
  CASE event.event_id = "MQTT_EVENT_CONNECTED"    -> handle_mqtt_connected(level)
    [] event.event_id = "MQTT_EVENT_DISCONNECTED" -> LedEffect(led_set_state(FALSE), << >>)
    [] event.event_id = "MQTT_EVENT_DATA"         -> handle_mqtt_data(event, level)
    [] OTHER                                      -> Effect(level, << >>)

\* variant: an error event is treated as fatal
Dispatch_abort_on_error(event, level) ==
  CASE event.event_id = "MQTT_EVENT_CONNECTED" -> handle_mqtt_connected(level)
    [] event.event_id = "MQTT_EVENT_DATA"      -> handle_mqtt_data(event, level)
    [] event.event_id = "MQTT_EVENT_ERROR"     ->
         [level |-> level, reqs |-> << >>, writes |-> << >>, halt |-> TRUE]
    [] OTHER                                   -> Effect(level, << >>)

\* the switch of mqtt5_event_handler
Dispatch(event, level) ==
  CASE event.event_id = "MQTT_EVENT_CONNECTED"    -> handle_mqtt_connected(level)
    [] event.event_id = "MQTT_EVENT_DISCONNECTED" -> Effect(level, << >>)
    [] event.event_id = "MQTT_EVENT_PUBLISHED"    -> Effect(level, << >>)
    [] event.event_id = "MQTT_EVENT_SUBSCRIBED"   -> Effect(level, << >>)
    [] event.event_id = "MQTT_EVENT_DATA"         -> handle_mqtt_data(event, level)
    [] event.event_id = "MQTT_EVENT_ERROR"        -> Effect(level, << >>)
    [] OTHER                                      -> Effect(level, << >>)

\* ------------------------------------------------------ events delivered
\* "/dorra"
TopicPrefix == SubSeq(TOPIC_CONTROL, 1, 6)
\* "/dorra/control/x"
TopicLonger == TOPIC_CONTROL \o <<47, 120>>

Topics == { TOPIC_CONTROL, TOPIC_STATUS, TopicPrefix, TopicLonger, << >> }

Payloads ==
  { << >>,                          \* ""
    <<111>>,                        \* "o"
    <<111,112,101>>,                \* "ope"
    CMD_OPEN,                       \* "open"
    <<111,112,101,110,32>>,         \* "open "
    <<111,112,101,110,NUL,120>>,    \* "open\0x"
    <<79,80,69,78>>,                \* "OPEN"
    <<99>>,                         \* "c"
    <<99,108,111,115>>,             \* "clos"
    CMD_CLOSE,                      \* "close"
    <<99,108,111,115,101,100>>,     \* "closed"
    <<120>> }                       \* "x"

DataEvent(topic, data) ==
  [event_id |-> "MQTT_EVENT_DATA", topic |-> topic, topic_len |-> Len(topic),
   data |-> data, data_len |-> Len(data)]

PlainEvent(id) ==
  [event_id |-> id, topic |-> << >>, topic_len |-> 0, data |-> << >>, data_len |-> 0]

PlainIds == { "MQTT_EVENT_CONNECTED", "MQTT_EVENT_DISCONNECTED",
              "MQTT_EVENT_PUBLISHED", "MQTT_EVENT_SUBSCRIBED", "MQTT_EVENT_ERROR",
              "MQTT_EVENT_BEFORE_CONNECT", "MQTT_EVENT_UNSUBSCRIBED" }

Events == { PlainEvent(id) : id \in PlainIds }
          \cup { DataEvent(t, d) : t \in Topics, d \in Payloads }

NoEvent == PlainEvent("none")

\* --------------------------------------------------------------- start-up
ESP_OK == "ESP_OK"
ESP_FAIL == "ESP_FAIL"
Results == { ESP_OK, ESP_FAIL }

\* the last-will a client holds: none before esp_mqtt_client_init
NoWill == [topic |-> << >>, msg |-> << >>, qos |-> 0, retain |-> FALSE]

\* session.last_will of mqtt5_cfg
ConfiguredWill ==
  [topic |-> TOPIC_STATUS,
   msg |-> SubSeq(MSG_DISCONNECTED, 1, strlen(MSG_DISCONNECTED)),
   qos |-> 1, retain |-> TRUE]

\* the handler invocations of the statement-level view
Tasks == {1, 2}

IdleTask ==
  [busy |-> FALSE, event |-> NoEvent, prog |-> << >>, next |-> 1,
   msg_id |-> 0, issued |-> << >>, rets |-> << >>]

Init ==
  /\ pc = "nvs_flash_init"
  /\ gpio_level \in {0, 1}      \* the pin is not driven before led_init
  /\ failed = {}
  /\ done = << >>
  /\ client = "none"
  /\ registered = FALSE
  /\ started = FALSE
  /\ nHandled = 0
  /\ lastEvent = NoEvent
  /\ prevEvent = NoEvent
  /\ before = gpio_level
  /\ out = << >>
  /\ prevOut = << >>
  /\ calls = << >>
  /\ writes = << >>
  /\ last_will = NoWill
  /\ nConnected = 0
  /\ mode = "serial"
  /\ tasks = [t \in Tasks |-> IdleTask]
  /\ accepted = << >>

\* ESP_ERROR_CHECK(step()): abort() unless the step returns ESP_OK
Checked(step, next, res) ==
  /\ pc = step
  /\ IF res = ESP_OK
     THEN /\ pc' = next
          /\ done' = Append(done, step)
          /\ failed' = failed
     ELSE /\ pc' = "aborted"
          /\ done' = done
          /\ failed' = failed \cup {step}

nvs_flash_init ==
  /\ \E res \in Results : Checked("nvs_flash_init", "esp_netif_init", res)
  /\ UNCHANGED <<gpio_level, client, registered, started,
                 nHandled, lastEvent, prevEvent, before, out, prevOut, calls,
                 writes, last_will, nConnected, stepVars>>

esp_netif_init ==
  /\ \E res \in Results : Checked("esp_netif_init", "esp_event_loop_create_default", res)
  /\ UNCHANGED <<gpio_level, client, registered, started,
                 nHandled, lastEvent, prevEvent, before, out, prevOut, calls,
                 writes, last_will, nConnected, stepVars>>

esp_event_loop_create_default ==
  /\ \E res \in Results : Checked("esp_event_loop_create_default", "led_init", res)
  /\ UNCHANGED <<gpio_level, client, registered, started,
                 nHandled, lastEvent, prevEvent, before, out, prevOut, calls,
                 writes, last_will, nConnected, stepVars>>

\* variant: the pin is configured but never driven to the OFF level
led_init_not_driven ==
  /\ \E res \in Results : Checked("led_init", "example_connect", res)
  /\ UNCHANGED <<gpio_level, client, registered, started,
                 nHandled, lastEvent, prevEvent, before, out, prevOut, calls,
                 writes, last_will, nConnected, stepVars>>

\* led_init: gpio_config is checked, then the pin is driven to the OFF level
led_init ==
  /\ \E res \in Results :
       /\ Checked("led_init", "example_connect", res)
       /\ gpio_level' = IF res = ESP_OK THEN led_set_state(FALSE) ELSE gpio_level
  /\ UNCHANGED <<client, registered, started, nHandled, lastEvent, prevEvent, before, out, prevOut, calls,
                 writes, last_will, nConnected, stepVars>>

example_connect ==
  /\ \E res \in Results : Checked("example_connect", "mqtt5_app_start", res)
  /\ UNCHANGED <<gpio_level, client, registered, started,
                 nHandled, lastEvent, prevEvent, before, out, prevOut, calls,
                 writes, last_will, nConnected, stepVars>>

\* mqtt5_app_start: the three client calls, none of whose results is looked at.
\* esp_mqtt_client_init gives a handle or NULL; the calls on a NULL handle fail.
mqtt5_app_start ==
  /\ pc = "mqtt5_app_start"
  /\ \E h \in {"handle", "NULL"}, r \in Results, s \in Results :
       LET reg == IF h = "NULL" THEN ESP_FAIL ELSE r
           sta == IF h = "NULL" THEN ESP_FAIL ELSE s
       IN /\ client' = h
          /\ registered' = (reg = ESP_OK)
          /\ started' = (sta = ESP_OK)
          /\ last_will' = IF h = "NULL" THEN NoWill ELSE ConfiguredWill
          /\ failed' = failed
               \cup (IF h = "NULL" THEN {"esp_mqtt_client_init"} ELSE {})
               \cup (IF reg # ESP_OK THEN {"esp_mqtt_client_register_event"} ELSE {})
               \cup (IF sta # ESP_OK THEN {"esp_mqtt_client_start"} ELSE {})
  /\ done' = Append(done, "mqtt5_app_start")
  /\ pc' = "returned"
  /\ UNCHANGED <<gpio_level, nHandled, lastEvent, prevEvent, before, out, prevOut, calls,
                 writes, nConnected, stepVars>>

\* the client task delivers an event to the registered handler, which runs
\* to completion
mqtt5_event_handler ==
  /\ pc = "returned"
  /\ started /\ registered
  /\ nHandled < MaxEvents
  /\ \E event \in Events :
       \E eff \in {Dispatch(event, gpio_level)} :
          /\ gpio_level' = eff.level
          /\ out' = eff.reqs
          /\ calls' = calls \o eff.reqs
          /\ writes' = eff.writes
          /\ lastEvent' = event
          /\ pc' = IF eff.halt THEN "aborted" ELSE pc
          /\ nConnected' = IF event.event_id = "MQTT_EVENT_CONNECTED"
                            THEN nConnected + 1 ELSE nConnected
  /\ before' = gpio_level
  /\ prevEvent' = lastEvent
  /\ prevOut' = out
  /\ nHandled' = nHandled + 1
  /\ UNCHANGED <<failed, done, client, registered, started, last_will, stepVars>>

Next ==
  \/ nvs_flash_init
  \/ esp_netif_init
  \/ esp_event_loop_create_default
  \/ led_init
  \/ example_connect
  \/ mqtt5_app_start
  \/ mqtt5_event_handler

Spec == Init /\ [][Next]_vars

\* ------------------------------------------- the handler, statement by statement
\* SpecSteps starts where start-up succeeded and runs each handler invocation
\* one statement at a time: the pin write, then each client call, whose result
\* is assigned to the local msg_id. mode "serial" is the client task's delivery
\* (one invocation at a time); mode "concurrent" lets two invocations overlap.
StepEvents ==
  { PlainEvent("MQTT_EVENT_CONNECTED"), PlainEvent("MQTT_EVENT_DISCONNECTED"),
    PlainEvent("MQTT_EVENT_ERROR"),
    DataEvent(TOPIC_CONTROL, CMD_OPEN), DataEvent(TOPIC_CONTROL, CMD_CLOSE),
    DataEvent(TOPIC_CONTROL, <<120>>), DataEvent(TOPIC_STATUS, CMD_OPEN) }

\* what esp_mqtt_client_publish / _subscribe return: -1 on failure, else a
\* message id
MsgIds == { -1, 1 }

GpioSteps(eff) ==
  [i \in 1..Len(eff.writes) |-> [op |-> "gpio", level |-> eff.writes[i]]]

CallSteps(eff) ==
  [i \in 1..Len(eff.reqs) |-> [op |-> "call", req |-> eff.reqs[i]]]

\* variant: the response is sent before the pin is driven
StepsOf_publish_first(eff) == CallSteps(eff) \o GpioSteps(eff)

\* the statements a handler invocation executes, in order: led_set_state
\* comes before esp_mqtt_client_publish in both command branches
StepsOf(eff) == GpioSteps(eff) \o CallSteps(eff)

\* variant: a failed call is issued again
NextStatement_retry(next, msg_id) == IF msg_id < 0 THEN next ELSE next + 1

\* after a client call msg_id is only logged: control goes to the next statement
NextStatement(next, msg_id) == next + 1

InitSteps ==
  /\ pc = "returned"
  /\ gpio_level = led_set_state(FALSE)
  /\ failed = {}
  /\ done = << "nvs_flash_init", "esp_netif_init", "esp_event_loop_create_default",
               "led_init", "example_connect", "mqtt5_app_start" >>
  /\ client = "handle"
  /\ registered = TRUE
  /\ started = TRUE
  /\ nHandled = 0
  /\ lastEvent = NoEvent
  /\ prevEvent = NoEvent
  /\ before = gpio_level
  /\ out = << >>
  /\ prevOut = << >>
  /\ calls = << >>
  /\ writes = << >>
  /\ last_will = ConfiguredWill
  /\ nConnected = 0
  /\ mode \in {"serial", "concurrent"}
  /\ tasks = [t \in Tasks |-> IdleTask]
  /\ accepted = << >>

mainVars == <<pc, failed, done, client, registered, started, lastEvent, prevEvent,
              before, out, prevOut, writes, last_will, nConnected, mode>>

\* an event is handed to the handler: the switch, the topic test and the
\* payload tests select the statements to run
DeliverStep(t) ==
  /\ pc = "returned" /\ started /\ registered
  /\ nHandled < MaxEvents
  /\ ~tasks[t].busy
  /\ mode = "serial" => \A u \in Tasks : ~tasks[u].busy
  /\ \E event \in StepEvents :
       \E eff \in {Dispatch(event, gpio_level)} :
          /\ tasks' = [tasks EXCEPT ![t] =
                         [busy |-> TRUE, event |-> event, prog |-> StepsOf(eff),
                          next |-> 1, msg_id |-> 0, issued |-> << >>, rets |-> << >>]]
          /\ accepted' = accepted \o eff.writes
  /\ nHandled' = nHandled + 1
  /\ UNCHANGED <<mainVars, gpio_level, calls>>

\* led_set_state: gpio_set_level
GpioStep(t) ==
  /\ tasks[t].busy
  /\ tasks[t].next <= Len(tasks[t].prog)
  /\ tasks[t].prog[tasks[t].next].op = "gpio"
  /\ gpio_level' = tasks[t].prog[tasks[t].next].level
  /\ tasks' = [tasks EXCEPT ![t].next = @ + 1]
  /\ UNCHANGED <<mainVars, nHandled, calls, accepted>>

\* msg_id = esp_mqtt_client_publish(...) or esp_mqtt_client_subscribe(...)
CallStep(t) ==
  /\ tasks[t].busy
  /\ tasks[t].next <= Len(tasks[t].prog)
  /\ tasks[t].prog[tasks[t].next].op = "call"
  /\ \E id \in MsgIds :
       tasks' = [tasks EXCEPT ![t] =
                   [@ EXCEPT !.msg_id = id,
                             !.issued = Append(@, tasks[t].prog[tasks[t].next].req),
                             !.rets = Append(@, id),
                             !.next = NextStatement(tasks[t].next, id)]]
  /\ calls' = Append(calls, tasks[t].prog[tasks[t].next].req)
  /\ UNCHANGED <<mainVars, nHandled, gpio_level, accepted>>

\* the handler returns to the client task
ReturnStep(t) ==
  /\ tasks[t].busy
  /\ tasks[t].next > Len(tasks[t].prog)
  /\ tasks' = [tasks EXCEPT ![t] = IdleTask]
  /\ UNCHANGED <<mainVars, nHandled, gpio_level, calls, accepted>>

NextSteps ==
  \/ \E t \in Tasks : DeliverStep(t)
  \/ \E t \in Tasks : GpioStep(t)
  \/ \E t \in Tasks : CallStep(t)
  \/ \E t \in Tasks : ReturnStep(t)

SpecSteps == InitSteps /\ [][NextSteps]_vars

\* ============================================================ properties
\* the strings the specification names, byte for byte
Str_open == <<111,112,101,110>>
Str_close == <<99,108,111,115,101>>
Str_control == <<47,100,111,114,114,97,47,99,111,110,116,114,111,108>>
Str_status == <<47,100,111,114,114,97,47,115,116,97,116,117,115>>
Str_ESP_Connected == <<69,83,80,32,67,111,110,110,101,99,116,101,100>>
Str_its_open == <<105,116,39,115,32,111,112,101,110>>
Str_its_closed == <<105,116,39,115,32,99,108,111,115,101,100>>

Handled == nHandled > 0
IsData(e) == e.event_id = "MQTT_EVENT_DATA"
OnControl(e) == IsData(e) /\ e.topic = Str_control /\ e.topic_len = Len(Str_control)
HasPayload(e, str) == e.data = str /\ e.data_len = Len(str)
IsPublish(req, topic, payload) ==
  req.call = "publish" /\ req.topic = topic /\ req.payload = payload
IsSubscribe(req, topic) == req.call = "subscribe" /\ req.topic = topic
Unchanged == gpio_level = before

\* C1: a data event on the control topic whose payload is not exactly "open"
\* or "close" leaves OutputState unchanged and issues no publish call.
C1_UnknownPayloadIgnored ==
  (Handled /\ OnControl(lastEvent)
     /\ ~HasPayload(lastEvent, Str_open) /\ ~HasPayload(lastEvent, Str_close))
  => (Unchanged /\ out = << >>)

\* C2: a data event whose topic is not exactly the control topic changes
\* neither OutputState nor publishes anything, whatever the payload.
C2_TopicIsolation ==
  (Handled /\ IsData(lastEvent) /\ ~OnControl(lastEvent))
  => (Unchanged /\ out = << >>)

\* C3: a data event on the control topic with payload exactly "open" sets
\* OutputState to true and issues exactly one publish, to the status topic,
\* with payload "it's open", whatever OutputState was.
C3_OpenSetsTrueAndAcks ==
  (Handled /\ OnControl(lastEvent) /\ HasPayload(lastEvent, Str_open))
  => /\ OutputState
     /\ Len(out) = 1
     /\ IsPublish(out[1], Str_status, Str_its_open)

C3_Witness ==
  /\ Handled /\ OnControl(lastEvent) /\ HasPayload(lastEvent, Str_open)
  /\ ~OutputStateOf(before) /\ OutputState
  /\ Len(out) = 1

\* C4: a data event on the control topic with payload exactly "close" sets
\* OutputState to false and issues exactly one publish, to the status topic,
\* with payload "it's closed", whatever OutputState was.
C4_CloseSetsFalseAndAcks ==
  (Handled /\ OnControl(lastEvent) /\ HasPayload(lastEvent, Str_close))
  => /\ ~OutputState
     /\ Len(out) = 1
     /\ IsPublish(out[1], Str_status, Str_its_closed)

C4_Witness ==
  /\ Handled /\ OnControl(lastEvent) /\ HasPayload(lastEvent, Str_close)
  /\ OutputStateOf(before) /\ ~OutputState
  /\ Len(out) = 1

\* C5: a Connected event issues exactly two requests: first one publish of
\* "ESP Connected" to the status topic, then one subscribe to the control
\* topic; it does nothing else (OutputState is left as it was).
C5_ConnectPublishesThenSubscribes ==
  (Handled /\ lastEvent.event_id = "MQTT_EVENT_CONNECTED")
  => /\ Len(out) = 2
     /\ IsPublish(out[1], Str_status, Str_ESP_Connected)
     /\ IsSubscribe(out[2], Str_control)
     /\ Unchanged

C5_Witness ==
  /\ Handled /\ lastEvent.event_id = "MQTT_EVENT_CONNECTED"
  /\ Len(out) = 2 /\ out[1].call = "publish" /\ out[2].call = "subscribe"

\* C6: every publish the handler issues has QoS 1 and the retain flag set,
\* and every subscribe it issues has QoS 1.
C6_QosOneAndRetained ==
  \A i \in 1..Len(calls) :
    /\ calls[i].qos = 1
    /\ calls[i].call = "publish" => calls[i].retain

\* C7: the same recognised command delivered twice in succession leaves
\* OutputState after the second call as it was after the first, and both
\* calls issue one acknowledgment, the two being identical.
C7_CommandIdempotent ==
  (nHandled >= 2 /\ OnControl(lastEvent) /\ prevEvent = lastEvent
     /\ (HasPayload(lastEvent, Str_open) \/ HasPayload(lastEvent, Str_close)))
  => /\ Unchanged
     /\ Len(out) = 1 /\ Len(prevOut) = 1
     /\ out[1] = prevOut[1]

C7_Witness ==
  /\ nHandled >= 2 /\ OnControl(lastEvent) /\ prevEvent = lastEvent
  /\ HasPayload(lastEvent, Str_open)
  /\ OutputState /\ out = prevOut /\ Len(out) = 1

\* C8: OutputState changes only in a data event that was taken as Open or
\* Close; no other event changes it, and no event other than Connected and
\* Data issues a publish or a subscribe.
C8_OnlyCommandsMutate ==
  Handled =>
    /\ ~IsData(lastEvent) => Unchanged
    /\ lastEvent.event_id \notin {"MQTT_EVENT_DATA", "MQTT_EVENT_CONNECTED"}
         => out = << >>
    /\ ~Unchanged
         => /\ IsData(lastEvent)
            /\ Len(out) = 1
            /\ \/ OutputState /\ IsPublish(out[1], Str_status, Str_its_open)
               \/ ~OutputState /\ IsPublish(out[1], Str_status, Str_its_closed)

C8_Witness ==
  /\ nHandled >= 2
  /\ lastEvent.event_id = "MQTT_EVENT_DISCONNECTED"
  /\ OnControl(prevEvent) /\ HasPayload(prevEvent, Str_open)
  /\ OutputState /\ out = << >>

\* C9: a failure of any initialization step halts the process: no state has
\* a failed step without the process being halted, and the client never
\* dispatches events after a failed step.
C9_InitFailureFatal ==
  failed # {} => (pc = "aborted" /\ ~started)

\* C10: the steps before the MQTT client run in the order storage, network
\* stack, event loop, output pin, network association; the client is
\* started only after them, the pin is off from led_init on, and the first
\* invocation of the handler observes OutputState = false.
C10_FalseBeforeFirstEvent ==
  /\ (started \/ pc = "returned")
       => done = << "nvs_flash_init", "esp_netif_init",
                    "esp_event_loop_create_default", "led_init",
                    "example_connect", "mqtt5_app_start" >>
  /\ (pc \in {"example_connect", "mqtt5_app_start"} \/ (pc = "returned" /\ nHandled = 0))
       => ~OutputState
  /\ nHandled = 1 => ~OutputStateOf(before)

C10_Witness ==
  /\ nHandled = 1 /\ started /\ registered
  /\ ~OutputStateOf(before)
  /\ lastEvent.event_id = "MQTT_EVENT_BEFORE_CONNECT"

\* C11: no runtime event is fatal: once events are dispatched, every event
\* (errors, unknown commands and foreign topics included) is handled to
\* completion, the process is not halted by it, and the handler can take the
\* next event.
C11_NoRuntimeEventFatal ==
  /\ Handled => (pc = "returned" /\ started /\ registered)
  /\ (pc = "returned" /\ started /\ registered /\ nHandled < MaxEvents)
       => ENABLED mqtt5_event_handler

C11_Witness ==
  /\ nHandled >= 2 /\ pc = "returned"
  /\ prevEvent.event_id = "MQTT_EVENT_ERROR"
  /\ OnControl(lastEvent) /\ HasPayload(lastEvent, <<120>>)
  /\ out = << >>

\* C13: command handling has no memory: the same data event delivered after
\* a history that left the other OutputState yields the same requests, the
\* same resulting OutputState when the command is recognised, and leaves
\* OutputState as it was otherwise.
C13_NoMemory ==
  (Handled /\ IsData(lastEvent)) =>
    LET other == Dispatch(lastEvent, LNot(before))
    IN /\ out = other.reqs
       /\ writes # << >> => gpio_level = other.level
       /\ writes = << >> => (Unchanged /\ other.level = LNot(before))

C13_Witness ==
  /\ Handled /\ OnControl(lastEvent) /\ HasPayload(lastEvent, Str_open)
  /\ OutputStateOf(before) /\ OutputState
  /\ Len(out) = 1 /\ IsPublish(out[1], Str_status, Str_its_open)

\* the acknowledgments among the requests issued so far
IsAck(req) ==
  req.call = "publish" /\ req.payload \in {Str_its_open, Str_its_closed}
Acks == SelectSeq(calls, IsAck)

\* C14: after initialization OutputState is true exactly when the most
\* recent command the handler accepted (and acknowledged) was accepted as
\* Open; it is false after a Close and when no command was accepted yet.
\* Disconnects and reconnects do not alter it.
C14_StateFollowsLastCommand ==
  pc = "returned" =>
    (OutputState <=> (Acks # << >> /\ Acks[Len(Acks)].payload = Str_its_open))

C14_Witness ==
  /\ nHandled >= 3 /\ OutputState
  /\ prevEvent.event_id = "MQTT_EVENT_DISCONNECTED"
  /\ lastEvent.event_id = "MQTT_EVENT_CONNECTED"
  /\ Len(Acks) = 1

\* C17: one data event causes at most one GPIO write and at most one
\* publication; a payload that satisfies both comparisons is taken by the
\* first one (open) only.
BothMatch(e) ==
  /\ strncmp(e.data, CMD_OPEN, e.data_len) = 0
  /\ strncmp(e.data, CMD_CLOSE, e.data_len) = 0

C17_AtMostOneWriteAndAck ==
  (Handled /\ IsData(lastEvent)) =>
    /\ Len(writes) <= 1
    /\ Len(out) <= 1
    /\ (OnControl(lastEvent) /\ BothMatch(lastEvent))
         => /\ writes = <<LED_ON_LEVEL>>
            /\ OutputState
            /\ Len(out) = 1 /\ IsPublish(out[1], Str_status, Str_its_open)

C17_Witness ==
  /\ Handled /\ OnControl(lastEvent) /\ BothMatch(lastEvent)
  /\ Len(writes) = 1 /\ Len(out) = 1 /\ OutputState

\* C18: every publish the handler issued targets the status topic, never
\* the control topic, with payload "ESP Connected", "it's open" or
\* "it's closed", never "ESP Disconnected"; that payload is only the
\* last-will configured on the client, with QoS 1 and retain true.
Str_ESP_Disconnected == <<69,83,80,32,68,105,115,99,111,110,110,101,99,116,101,100>>

C18_PublishesOnlyStatus ==
  /\ \A i \in 1..Len(calls) :
       calls[i].call = "publish" =>
         /\ calls[i].topic = Str_status
         /\ calls[i].topic # Str_control
         /\ calls[i].payload \in {Str_ESP_Connected, Str_its_open, Str_its_closed}
         /\ calls[i].payload # Str_ESP_Disconnected
  /\ client = "handle" =>
       last_will = [topic |-> Str_status, msg |-> Str_ESP_Disconnected,
                    qos |-> 1, retain |-> TRUE]
  /\ client # "handle" => last_will.msg # Str_ESP_Disconnected

C18_Witness ==
  /\ Len(calls) >= 4
  /\ \E i \in 1..Len(calls) : IsPublish(calls[i], Str_status, Str_ESP_Connected)
  /\ \E i \in 1..Len(calls) : IsPublish(calls[i], Str_status, Str_its_open)
  /\ \E i \in 1..Len(calls) : IsPublish(calls[i], Str_status, Str_its_closed)
  /\ last_will.msg = Str_ESP_Disconnected

\* C19: with k Connected events delivered, the handler has issued exactly k
\* publications of "ESP Connected" and exactly k subscribe requests to the
\* control topic, each publication directly followed by its subscribe.
IsConnectPublish(req) == IsPublish(req, Str_status, Str_ESP_Connected)
IsControlSubscribe(req) == IsSubscribe(req, Str_control)

C19_OnePairPerConnect ==
  /\ Len(SelectSeq(calls, IsConnectPublish)) = nConnected
  /\ Len(SelectSeq(calls, IsControlSubscribe)) = nConnected
  /\ \A i \in 1..Len(calls) :
       IsConnectPublish(calls[i])
         => (i < Len(calls) /\ IsControlSubscribe(calls[i + 1]))

C19_Witness ==
  /\ nConnected = 2 /\ nHandled = 3
  /\ prevEvent.event_id = "MQTT_EVENT_DISCONNECTED"
  /\ lastEvent.event_id = "MQTT_EVENT_CONNECTED"
  /\ Len(SelectSeq(calls, IsControlSubscribe)) = 2

\* the client calls among the first n statements of a handler invocation
RECURSIVE CallsAmong(_, _)
CallsAmong(prog, n) ==
  IF n = 0 THEN << >>
  ELSE CallsAmong(prog, n - 1)
       \o (IF prog[n].op = "call" THEN <<prog[n].req>> ELSE << >>)

Finished(task) == task.busy /\ task.next > Len(task.prog)
AllIdle == \A t \in Tasks : ~tasks[t].busy

\* C12: the handler never retries nor reacts to a failed request: whatever
\* the calls return, each call statement is issued once; after a failed
\* publish on_connected still issues its subscribe; and a command leaves
\* OutputState at the commanded value even when its acknowledgment failed.
C12_NoRetryOnFailure ==
  \A t \in Tasks :
    LET task == tasks[t]
    IN task.busy =>
         /\ task.next <= Len(task.prog) + 1
         /\ task.issued = CallsAmong(task.prog, task.next - 1)
         /\ Len(task.rets) = Len(task.issued)
         /\ (Finished(task) /\ task.event.event_id = "MQTT_EVENT_CONNECTED")
              => /\ Len(task.issued) = 2
                 /\ IsPublish(task.issued[1], Str_status, Str_ESP_Connected)
                 /\ IsSubscribe(task.issued[2], Str_control)
         /\ (Finished(task) /\ mode = "serial" /\ OnControl(task.event)
               /\ HasPayload(task.event, Str_open))
              => (OutputState /\ Len(task.issued) = 1)
         /\ (Finished(task) /\ mode = "serial" /\ OnControl(task.event)
               /\ HasPayload(task.event, Str_close))
              => (~OutputState /\ Len(task.issued) = 1)

C12_Witness ==
  \E t \in Tasks :
    /\ Finished(tasks[t])
    /\ tasks[t].event.event_id = "MQTT_EVENT_CONNECTED"
    /\ tasks[t].rets = << -1, 1 >>
    /\ Len(tasks[t].issued) = 2 /\ IsSubscribe(tasks[t].issued[2], Str_control)

\* C15: under serial run-to-completion delivery the acknowledgments issued
\* match the accepted commands one for one and in order, so the last one
\* agrees with OutputState; when two data events are handled concurrently a
\* state is reachable where the last acknowledgment disagrees with it.
LastAckAgrees ==
  Acks # << >> => (OutputState <=> Acks[Len(Acks)].payload = Str_its_open)

C15_SerialAcksFollowCommands ==
  (mode = "serial" /\ AllIdle) =>
    /\ Len(Acks) = Len(accepted)
    /\ \A i \in 1..Len(Acks) :
         (Acks[i].payload = Str_its_open) <=> OutputStateOf(accepted[i])
    /\ LastAckAgrees

C15_ConcurrentDisagreement ==
  /\ mode = "concurrent" /\ AllIdle
  /\ Len(Acks) = 2 /\ Len(accepted) = 2
  /\ ~LastAckAgrees

\* C16: within the handling of one accepted command (serial delivery) the
\* pin is written before the acknowledgment is issued: when "it's open" is
\* about to be handed to the client OutputState is already true, and when
\* "it's closed" is, OutputState is already false.
AboutToCall(task, payload) ==
  /\ task.busy /\ task.next <= Len(task.prog)
  /\ task.prog[task.next].op = "call"
  /\ IsPublish(task.prog[task.next].req, Str_status, payload)

C16_WriteBeforeAck ==
  mode = "serial" =>
    \A t \in Tasks :
      /\ AboutToCall(tasks[t], Str_its_open) => OutputState
      /\ AboutToCall(tasks[t], Str_its_closed) => ~OutputState

C16_Witness ==
  /\ mode = "serial" /\ nHandled = 1 /\ calls = << >>
  /\ \E t \in Tasks : AboutToCall(tasks[t], Str_its_open) /\ tasks[t].next = 2
  /\ OutputState

====
